---- MODULE Spec2Model ----
(***************************************************************************)
(* Model of the AOI analysis code of lihsinn/Computer_Vision_application:  *)
(*   - the canonical orientation estimator (detect_rectangle_rotation of   *)
(*     the pick-and-place tutorial and the 180-degree disambiguation of    *)
(*     its test scripts);                                                  *)
(*   - the three analyses of AOIService (aoi_service.py).                  *)
(* Angles are whole degrees.  The fiducial rotation angle, which the code  *)
(* rounds to two decimals, is kept in hundredths of a degree.              *)
(***************************************************************************)
EXTENDS Integers, Sequences, FiniteSets, TLC

VARIABLES
    last,        \* the operation that ran last
    known,       \* TRUE when the image was drawn at a known heading (test_angle)
    theta,       \* normalized_true = true_angle % 360 of the test script
    fitErr,      \* discretisation error of the fit, degrees
    box,         \* cv2.minAreaRect's answer: [w, h, angle]
    canon,       \* the angle detect_rectangle_rotation returns
    prevCanon,   \* the angle a previous call on the same image returned, <<>> if none
    reference,   \* second argument of fix_180_ambiguity
    resolved,    \* the angle fix_180_ambiguity returns
    call,        \* AOIService: the last call, [op, ...arguments]
    ret,         \* AOIService: what the last call returned or raised
    files,       \* the upload folder: what each path decodes to
    inv,         \* the invocation each worker thread is in, with its locals
    memo,        \* the result a caller kept of an earlier call, <<>> if none
    folder       \* UPLOAD_FOLDER as the routes see it: the files in it

angleVars == <<last, known, theta, fitErr, box, canon, prevCanon, reference, resolved>>
svcVars == <<call, ret>>
storeVars == <<files, inv, memo, folder>>
vars == <<last, known, theta, fitErr, box, canon, prevCanon, reference, resolved, call, ret,
          files, inv, memo, folder>>

Abs(x) == IF x < 0 THEN 0 - x ELSE x

(***************************************************************************)
(* Bounds of the model.                                                    *)
(***************************************************************************)
\* largest discretisation error (degrees) of a fit of a drawn rectangle
MaxFitErr == 1
\* most circles one image holds
MaxCircles == 3
\* most blobs one image holds
MaxBlobs == 3
\* most edge contours one image holds
MaxEdges == 3
\* most regions one binary image holds
MaxRegions == 3

(***************************************************************************)
(* The orientation estimator.                                              *)
(***************************************************************************)
\* size = (150, 80) of the rectangle the test scripts draw
RectW == 150
RectH == 80

\* edge lengths a fitted box may report
Sizes == {RectH, RectW}

\* cv2.minAreaRect on an arbitrary region: the first edge's angle lies in
\* [-90, 0) (OpenCV < 4.5.1) or in (0, 90] (later builds); either edge pair
\* may come first, and a square region reports equal edges.
MinAreaRectAny ==
    [w : Sizes, h : Sizes, angle : (0 - 90)..90]

\* cv2.minAreaRect on the RectW x RectH rectangle drawn at heading t, read with
\* error e: the long edge first at t + e, or the short edge first a quarter
\* turn away, both modulo the half turn that leaves the silhouette unchanged.
MinAreaRectDrawn(t, e) ==
    { b \in MinAreaRectAny :
        \/ b.w = RectW /\ b.h = RectH /\ (b.angle - (t + e)) % 180 = 0
        \/ b.w = RectH /\ b.h = RectW /\ (b.angle - (t + e) - 90) % 180 = 0 }

\* mutants of detect_rectangle_rotation
detect_rectangle_rotation_nonorm(b) ==
    IF b.w < b.h THEN 90 + b.angle ELSE b.angle

detect_rectangle_rotation_le(b) ==
    LET a1 == IF b.w <= b.h THEN 90 + b.angle ELSE b.angle
    IN  IF a1 < 0 THEN a1 + 360 ELSE a1

detect_rectangle_rotation_noswap(b) ==
    IF b.angle < 0 THEN b.angle + 360 ELSE b.angle

\* detect_rectangle_rotation, the angle computed from minAreaRect's answer
detect_rectangle_rotation(b) ==
    LET a1 == IF b.w < b.h THEN 90 + b.angle ELSE b.angle
    IN  IF a1 < 0 THEN a1 + 360 ELSE a1

\* mutant of fix_180_ambiguity: flips whenever the error exceeds 90
fix_180_ambiguity_always(angle, true_angle) ==
    IF Abs(angle - true_angle) > 90 THEN (angle + 180) % 360 ELSE angle

\* mutant of fix_180_ambiguity: keeps the flipped angle when it is farther
fix_180_ambiguity_farther(angle, true_angle) ==
    LET error == Abs(angle - true_angle)
        angle_flipped == (angle + 180) % 360
        error_flipped == Abs(angle_flipped - true_angle)
    IN  IF error > 90 /\ error_flipped > error THEN angle_flipped ELSE angle

\* fix_180_ambiguity of the test scripts (the angle it returns)
fix_180_ambiguity(angle, true_angle) ==
    LET error == Abs(angle - true_angle)
        angle_flipped == (angle + 180) % 360
        error_flipped == Abs(angle_flipped - true_angle)
    IN  IF error > 90 /\ error_flipped < error THEN angle_flipped ELSE angle

\* the variables hold the locals of the call that ran last; a call that has no
\* box leaves this one
NoBox == [w |-> 0, h |-> 0, angle |-> 0]

\* true_angle arguments of the test scripts (they pass negative ones too)
TrueAngles == (0 - 90)..359

\* detect_rectangle_rotation(img) on an arbitrary image with one region
DetectRectangleRotation ==
    /\ last = "idle"
    /\ \E b \in MinAreaRectAny :
        /\ last' = "detect"
        /\ known' = FALSE
        /\ box' = b
        /\ canon' = detect_rectangle_rotation(b)
        /\ prevCanon' = <<>>
        /\ theta' = 0 /\ fitErr' = 0 /\ reference' = 0 /\ resolved' = 0
        /\ UNCHANGED <<call, ret, files, inv, memo, folder>>

\* a second call of detect_rectangle_rotation on the same image: minAreaRect
\* answers as before
DetectAgain ==
    /\ last \in {"detect", "again"}
    /\ last' = "again"
    /\ prevCanon' = <<canon>>
    /\ canon' = detect_rectangle_rotation(box)
    /\ UNCHANGED <<known, theta, fitErr, box, reference, resolved, call, ret,
                   files, inv, memo, folder>>

\* test_angle(true_angle): draw, fit, canonicalize, resolve against the truth
TestAngle ==
    /\ last = "idle"
    /\ \E true_angle \in TrueAngles, e \in (0 - MaxFitErr)..MaxFitErr :
        LET normalized_true == true_angle % 360
        IN  \E b \in MinAreaRectDrawn(true_angle, e) :
                LET angle == detect_rectangle_rotation(b)
                IN  /\ last' = "test"
                    /\ known' = TRUE
                    /\ theta' = normalized_true
                    /\ fitErr' = e
                    /\ box' = b
                    /\ canon' = angle
                    /\ prevCanon' = <<>>
                    /\ reference' = normalized_true
                    /\ resolved' = fix_180_ambiguity(angle, normalized_true)
                    /\ UNCHANGED <<call, ret, files, inv, memo, folder>>

\* fix_180_ambiguity(angle, reference) on its own
FixAmbiguity ==
    /\ last = "idle"
    /\ \E a \in 0..359, r \in 0..359 :
        /\ last' = "fix"
        /\ known' = FALSE
        /\ canon' = a
        /\ prevCanon' = <<>>
        /\ reference' = r
        /\ resolved' = fix_180_ambiguity(a, r)
        /\ theta' = 0 /\ fitErr' = 0 /\ box' = NoBox
        /\ UNCHANGED <<call, ret, files, inv, memo, folder>>

InitAngle ==
    /\ last = "idle"
    /\ known = FALSE
    /\ theta = 0
    /\ fitErr = 0
    /\ box = NoBox
    /\ canon = 0
    /\ prevCanon = <<>>
    /\ reference = 0
    /\ resolved = 0

\* the call has returned and the script goes on to its next case: the locals
\* of the finished call are gone
AngleDone ==
    /\ last # "idle"
    /\ last' = "idle"
    /\ known' = FALSE
    /\ theta' = 0 /\ fitErr' = 0 /\ box' = NoBox /\ canon' = 0
    /\ prevCanon' = <<>> /\ reference' = 0 /\ resolved' = 0
    /\ UNCHANGED <<call, ret, files, inv, memo, folder>>

InitSvc ==
    /\ call = [op |-> "none"]
    /\ ret = [status |-> "none"]

\* the threads of the server that run analyses
Workers == {"w1", "w2"}

\* paths of the upload folder
Paths == {"p1", "p2"}

\* what cv2.imread gives for a path that holds no decodable file: None
NoImage ==
    [readable |-> FALSE, marked |-> FALSE, blobs |-> <<>>, edges |-> <<>>,
     circles |-> <<>>, regions |-> <<>>]

\* a worker that runs no analysis
IdleInvocation ==
    [pc |-> "idle", op |-> "none", path |-> "none", args |-> <<>>,
     io |-> <<>>, seen |-> <<>>, img |-> <<>>, res |-> <<>>, out |-> <<>>]

InitStore ==
    /\ files = [p \in Paths |-> NoImage]
    /\ inv = [w \in Workers |-> IdleInvocation]
    /\ memo = <<>>
    /\ folder = {}

Init == InitAngle /\ InitSvc /\ InitStore

NextAngle ==
    \/ DetectRectangleRotation
    \/ DetectAgain
    \/ TestAngle
    \/ FixAmbiguity
    \/ AngleDone

SpecAngle == Init /\ [][NextAngle]_vars

(***************************************************************************)
(* AOIService.  An image is what the OpenCV steps of the service see in    *)
(* it: whether cv2.imread can decode it, its size, the blobs that stand    *)
(* out of the blurred background (in the order cv2.findContours meets      *)
(* them) and the circles of the Hough accumulator (in its order).          *)
(***************************************************************************)
\* size of the images of the model, pixels
ImgW == 100
ImgH == 100

\* blobs: contrast against the blurred background, contour area, bounding box
BlobKinds ==
    { [diff |-> 100, area |-> 400, x |-> 10, y |-> 10, w |-> 21, h |-> 21],
      [diff |-> 100, area |-> 49,  x |-> 50, y |-> 10, w |-> 8,  h |-> 8],
      [diff |-> 40,  area |-> 50,  x |-> 10, y |-> 50, w |-> 9,  h |-> 7],
      [diff |-> 20,  area |-> 300, x |-> 50, y |-> 50, w |-> 30, h |-> 11] }

\* sequences without repetition of at most n elements of S
RECURSIVE SeqsUpTo(_, _)
SeqsUpTo(S, n) ==
    IF n = 0 THEN { <<>> }
    ELSE LET shorter == SeqsUpTo(S, n - 1)
         IN  shorter \cup
             { Append(q, e) : q \in { t \in shorter : Len(t) = n - 1 },
                              e \in S } 

NoRepeat(q) == \A i, j \in 1..Len(q) : i # j => q[i] # q[j]

BlobLists == { q \in SeqsUpTo(BlobKinds, MaxBlobs) : NoRepeat(q) }

\* threshold arguments: the default 30, and values around 0 and the contrasts
Thresholds == { 0 - 1, 0, 1, 30, 40, 100 }

\* cv2.threshold(diff, threshold, 255, THRESH_BINARY): a pixel is foreground
\* when its difference is strictly greater than the threshold
Foreground(diff, threshold) == diff > threshold

\* cv2.morphologyEx(th, MORPH_OPEN, 5x5 ellipse): a region narrower than the
\* structuring element is erased
Opened(b) == b.w >= 5 /\ b.h >= 5

\* cv2.findContours(cl, RETR_EXTERNAL, ...) after the threshold and the
\* opening.  The background differs from its blur by 0: below threshold 0 the
\* whole mask is foreground and is one region covering the image.
DefectContours(img, threshold) ==
    IF Foreground(0, threshold)
    THEN << [diff |-> 0, area |-> (ImgW - 1) * (ImgH - 1),
             x |-> 0, y |-> 0, w |-> ImgW, h |-> ImgH] >>
    ELSE SelectSeq(img.blobs,
                   LAMBDA b : Foreground(b.diff, threshold) /\ Opened(b))

\* mutant of DefectLoop: the id is the index of the contour, as with enumerate
RECURSIVE DefectLoopIdx(_, _, _)
DefectLoopIdx(cnt, defs, i) ==
    IF cnt = <<>> THEN defs
    ELSE LET c == Head(cnt)
         IN  IF c.area < 50
             THEN DefectLoopIdx(Tail(cnt), defs, i + 1)
             ELSE DefectLoopIdx(Tail(cnt),
                    Append(defs,
                      [id |-> i,
                       position |-> [x |-> c.x + (c.w \div 2),
                                     y |-> c.y + (c.h \div 2)],
                       area |-> c.area,
                       bbox |-> [x |-> c.x, y |-> c.y,
                                 width |-> c.w, height |-> c.h]]),
                    i + 1)

DefectLoopByIndex(cnt, defs) == DefectLoopIdx(cnt, defs, 1)

\* mutant of DefectLoop: a contour of exactly 50 px^2 is discarded too
RECURSIVE DefectLoopStrict(_, _)
DefectLoopStrict(cnt, defs) ==
    IF cnt = <<>> THEN defs
    ELSE LET c == Head(cnt)
         IN  IF c.area <= 50
             THEN DefectLoopStrict(Tail(cnt), defs)
             ELSE DefectLoopStrict(Tail(cnt),
                    Append(defs,
                      [id |-> Len(defs) + 1,
                       position |-> [x |-> c.x + (c.w \div 2),
                                     y |-> c.y + (c.h \div 2)],
                       area |-> c.area,
                       bbox |-> [x |-> c.x, y |-> c.y,
                                 width |-> c.w, height |-> c.h]]))

\* mutant of DefectLoop: the position is rounded up, not down
RECURSIVE DefectLoopCeil(_, _)
DefectLoopCeil(cnt, defs) ==
    IF cnt = <<>> THEN defs
    ELSE LET c == Head(cnt)
         IN  IF c.area < 50
             THEN DefectLoopCeil(Tail(cnt), defs)
             ELSE DefectLoopCeil(Tail(cnt),
                    Append(defs,
                      [id |-> Len(defs) + 1,
                       position |-> [x |-> c.x + ((c.w + 1) \div 2),
                                     y |-> c.y + ((c.h + 1) \div 2)],
                       area |-> c.area,
                       bbox |-> [x |-> c.x, y |-> c.y,
                                 width |-> c.w, height |-> c.h]]))

\* the loop of detect_defects over the contours
RECURSIVE DefectLoop(_, _)
DefectLoop(cnt, defs) ==
    IF cnt = <<>> THEN defs
    ELSE LET c == Head(cnt)
         IN  IF c.area < 50
             THEN DefectLoop(Tail(cnt), defs)
             ELSE DefectLoop(Tail(cnt),
                    Append(defs,
                      [id |-> Len(defs) + 1,
                       position |-> [x |-> c.x + (c.w \div 2),
                                     y |-> c.y + (c.h \div 2)],
                       area |-> c.area,
                       bbox |-> [x |-> c.x, y |-> c.y,
                                 width |-> c.w, height |-> c.h]]))

\* AOIService.detect_defects(path, t_path, threshold)
detect_defects(img, threshold) ==
    IF ~img.readable
    THEN [status |-> "cv2.error"]
    ELSE LET defs == DefectLoop(DefectContours(img, threshold), <<>>)
         IN  [status |-> "ok", defects |-> defs, defect_count |-> Len(defs),
              annotated_image |-> TRUE]

\* edge contours cv2.findContours extracts from the Canny edge map, in its
\* order: contour area, perimeter (cv2.arcLength), bounding box.  A disc of
\* radius 20, a 60 x 30 rectangle, a 10 x 10 speck and a single point.
EdgeKinds ==
    { [area |-> 1257, perim |-> 126, x |-> 10, y |-> 10, w |-> 41, h |-> 41],
      [area |-> 1800, perim |-> 180, x |-> 60, y |-> 10, w |-> 61, h |-> 31],
      [area |-> 99,   perim |-> 40,  x |-> 10, y |-> 60, w |-> 11, h |-> 11],
      [area |-> 0,    perim |-> 0,   x |-> 80, y |-> 80, w |-> 1,  h |-> 1] }

EdgeLists == { q \in SeqsUpTo(EdgeKinds, MaxEdges) : NoRepeat(q) }

\* pixel_to_mm arguments in hundredths of a millimetre per pixel: 0.05, the
\* default 0.1, and 0.2
PixelToMm == {5, 10, 20}

\* round(n / d) to the nearest integer, ties to even, as Python's round
RoundDiv(n, d) ==
    LET q == n \div d
        r == n % d
    IN  IF 2 * r < d THEN q
        ELSE IF 2 * r > d THEN q + 1
        ELSE IF q % 2 = 0 THEN q ELSE q + 1

\* mutant of Circularity: no test of the perimeter, the division raises
\* ZeroDivisionError
CircularityNoGuard(a, p) ==
    [raised |-> (p = 0), num |-> 4 * 355 * a, den |-> IF p = 0 THEN 1 ELSE 113 * p * p]

\* "circ=4*np.pi*a/(p*p) if p>0 else 0" as the fraction num / den, with
\* pi = 355/113; raised tells whether the division raised
Circularity(a, p) ==
    IF p > 0
    THEN [raised |-> FALSE, num |-> 4 * 355 * a, den |-> 113 * p * p]
    ELSE [raised |-> FALSE, num |-> 0, den |-> 1]

\* "circ > 0.8"
IsCircle(circ) == 10 * circ.num > 8 * circ.den

\* round(2*np.sqrt(a/np.pi)*pmm, 2) in hundredths of a millimetre: the n with
\* (n - 1/2)^2 <= 4 k^2 a / pi < (n + 1/2)^2
DiameterCenti(a, k) ==
    CHOOSE n \in 0..1000 :
        /\ (2 * n - 1) * (2 * n - 1) * 355 <= 16 * k * k * a * 113
        /\ 16 * k * k * a * 113 < (2 * n + 1) * (2 * n + 1) * 355

\* mutant of MeasurementOf: the area is converted with the scale, not with
\* its square
MeasurementOfLinearArea(i, c, k) ==
    LET circ == Circularity(c.area, c.perim)
    IN  [object_id |-> i,
         shape |-> IF IsCircle(circ) THEN "circle" ELSE "rectangle",
         width_mm |-> c.w * k,
         height_mm |-> c.h * k,
         area_mm2 |-> c.area * k,
         bbox |-> [x |-> c.x, y |-> c.y, width |-> c.w, height |-> c.h],
         diameter_mm |-> IF IsCircle(circ)
                         THEN << DiameterCenti(c.area, k) >> ELSE <<>>]

\* mutant of MeasurementOf: the diameter is reported for every shape
MeasurementOfAlwaysDiameter(i, c, k) ==
    LET circ == Circularity(c.area, c.perim)
    IN  [object_id |-> i,
         shape |-> IF IsCircle(circ) THEN "circle" ELSE "rectangle",
         width_mm |-> c.w * k,
         height_mm |-> c.h * k,
         area_mm2 |-> RoundDiv(c.area * k * k, 100),
         bbox |-> [x |-> c.x, y |-> c.y, width |-> c.w, height |-> c.h],
         diameter_mm |-> << DiameterCenti(c.area, k) >>]

\* the record m of measure_dimensions for the i-th contour c (lengths and
\* areas in hundredths); diameter_mm is <<>> when the key is not set
MeasurementOf(i, c, k) ==
    LET circ == Circularity(c.area, c.perim)
    IN  [object_id |-> i,
         shape |-> IF IsCircle(circ) THEN "circle" ELSE "rectangle",
         width_mm |-> c.w * k,
         height_mm |-> c.h * k,
         area_mm2 |-> RoundDiv(c.area * k * k, 100),
         bbox |-> [x |-> c.x, y |-> c.y, width |-> c.w, height |-> c.h],
         diameter_mm |-> IF IsCircle(circ)
                         THEN << DiameterCenti(c.area, k) >> ELSE <<>>]

\* the loop of measure_dimensions, "for i,c in enumerate(cnt)": i counts the
\* contours, the discarded ones too
RECURSIVE MeasureLoop(_, _, _, _)
MeasureLoop(cnt, i, k, ms) ==
    IF cnt = <<>> THEN ms
    ELSE LET c == Head(cnt)
         IN  IF c.area < 100
             THEN MeasureLoop(Tail(cnt), i + 1, k, ms)
             ELSE MeasureLoop(Tail(cnt), i + 1, k,
                              Append(ms, MeasurementOf(i, c, k)))

\* the division of the loop raised for one of the contours it measured
MeasureRaised(cnt) ==
    \E j \in 1..Len(cnt) :
        cnt[j].area >= 100 /\ Circularity(cnt[j].area, cnt[j].perim).raised

\* AOIService.measure_dimensions(path, pmm)
measure_dimensions(img, k) ==
    IF ~img.readable
    THEN [status |-> "cv2.error"]
    ELSE IF MeasureRaised(img.edges)
    THEN [status |-> "ZeroDivisionError"]
    ELSE [status |-> "ok",
          measurements |-> MeasureLoop(img.edges, 1, k, <<>>),
          annotated_image |-> TRUE]

\* the loop of the tutorial's dimension_measurement: every contour is
\* measured (no area filter) with pixel_to_mm = 0.1, and its shape printed
TutorialShapes(cnt) ==
    [i \in 1..Len(cnt) |->
        LET circ == Circularity(cnt[i].area, cnt[i].perim)
        IN  [object_id |-> i,
             raised |-> circ.raised,
             shape |-> IF IsCircle(circ) THEN "circle" ELSE "rectangle",
             width_mm |-> cnt[i].w * 10,
             height_mm |-> cnt[i].h * 10]]

\* dimension_measurement() of 03_aoi_applications.py, what it prints
dimension_measurement(cnt) ==
    LET lines == TutorialShapes(cnt)
    IN  IF \E i \in 1..Len(lines) : lines[i].raised
        THEN [status |-> "ZeroDivisionError"]
        ELSE [status |-> "ok", printed |-> lines]

\* circle centres and radii of the model's images; the centres are at least
\* minDist = 100 apart
Coords == {100, 200, 300}
Radii == {10, 20}
CircleKinds == [x : Coords, y : Coords, r : Radii]

CircleLists ==
    { q \in SeqsUpTo(CircleKinds, MaxCircles) :
        \A i, j \in 1..Len(q) :
            i # j => (q[i].x # q[j].x \/ q[i].y # q[j].y) }

\* (minRadius, maxRadius) arguments: the defaults 5/25, narrower ranges, and
\* ranges with minRadius >= maxRadius
RadiusArgs == { <<5, 25>>, <<15, 25>>, <<5, 15>>, <<25, 5>>, <<10, 10>>, <<20, 20>> }

Max(a, b) == IF a >= b THEN a ELSE b

\* cv2.HoughCircles(..., minRadius, maxRadius): OpenCV does not reject a range
\* with maxRadius <= minRadius, it searches minRadius .. minRadius + 2 (and the
\* whole image when maxRadius <= 0).  The answer is None when nothing is found,
\* here the empty sequence.
HoughCircles(img, minr, maxr) ==
    LET lo == Max(0, minr)
        hi == IF maxr <= 0 THEN Max(ImgW, ImgH)
              ELSE IF maxr <= lo THEN lo + 2
              ELSE maxr
    IN  SelectSeq(img.circles, LAMBDA c : lo <= c.r /\ c.r <= hi)

\* np.uint16(np.around(c)) of one coordinate
Uint16(v) == v % 65536

\* round(degrees(arctan(n / d)), 2) in hundredths, for n, d >= 0 not both 0,
\* on the slopes the model's grid has
ArctanCenti(n, d) ==
    IF n = 0 THEN 0
    ELSE IF d = 0 THEN 9000
    ELSE IF n = d THEN 4500
    ELSE IF 2 * n = d THEN 2657
    ELSE IF n = 2 * d THEN 6343
    ELSE 0 - 1

\* round(float(np.degrees(np.arctan2(dy, dx))), 2) in hundredths of a degree
Atan2Centi(dy, dx) ==
    IF dx > 0 /\ dy >= 0 THEN ArctanCenti(dy, dx)
    ELSE IF dx > 0 THEN 0 - ArctanCenti(0 - dy, dx)
    ELSE IF dx = 0 /\ dy > 0 THEN 9000
    ELSE IF dx = 0 /\ dy < 0 THEN 0 - 9000
    ELSE IF dx = 0 THEN 0
    ELSE IF dy >= 0 THEN 18000 - ArctanCenti(dy, 0 - dx)
    ELSE ArctanCenti(0 - dy, 0 - dx) - 18000

\* mutant of FiducialMarks: the first circle is skipped
FiducialMarksSkipFirst(c) ==
    [i \in 1..(IF Len(c) = 0 THEN 0 ELSE Len(c) - 1) |->
        [id |-> i,
         position |-> [x |-> Uint16(c[i + 1].x), y |-> Uint16(c[i + 1].y)],
         radius |-> Uint16(c[i + 1].r)]]

\* mutant of FiducialMarks: the ids start at 0
FiducialMarksZeroBased(c) ==
    [i \in 1..Len(c) |->
        [id |-> i - 1,
         position |-> [x |-> Uint16(c[i].x), y |-> Uint16(c[i].y)],
         radius |-> Uint16(c[i].r)]]

\* the marks detect_fiducial_marks builds from the circles, ids from 1
FiducialMarks(c) ==
    [i \in 1..Len(c) |->
        [id |-> i,
         position |-> [x |-> Uint16(c[i].x), y |-> Uint16(c[i].y)],
         radius |-> Uint16(c[i].r)]]

\* ang of detect_fiducial_marks: None (<<>>) unless two marks were found
FiducialAng(ms) ==
    IF Len(ms) >= 2
    THEN LET p1 == ms[1].position
             p2 == ms[2].position
         IN  << Atan2Centi(p2.y - p1.y, p2.x - p1.x) >>
    ELSE <<>>

\* "round(ang,2) if ang else None": an angle of 0.0 is falsy, like None
RotationAngle(ang) ==
    IF ang # <<>> /\ ang[1] # 0 THEN ang ELSE <<>>

\* mutant of detect_fiducial_marks: no annotated image without a rotation
detect_fiducial_marks_bare(img, minr, maxr) ==
    IF ~img.readable
    THEN [status |-> "cv2.error"]
    ELSE LET ms == FiducialMarks(HoughCircles(img, minr, maxr))
             ra == RotationAngle(FiducialAng(ms))
         IN  IF ra = <<>>
             THEN [status |-> "ok", marks |-> ms, rotation_angle |-> ra]
             ELSE [status |-> "ok", marks |-> ms, rotation_angle |-> ra,
                   annotated_image |-> TRUE]

\* AOIService.detect_fiducial_marks(path, minr, maxr)
detect_fiducial_marks(img, minr, maxr) ==
    IF ~img.readable
    THEN [status |-> "cv2.error"]
    ELSE LET ms == FiducialMarks(HoughCircles(img, minr, maxr))
         IN  [status |-> "ok", marks |-> ms,
              rotation_angle |-> RotationAngle(FiducialAng(ms)),
              annotated_image |-> TRUE]

\* a call of AOIService.detect_defects
DetectDefects ==
    /\ call.op = "none"
    /\ \E rd \in BOOLEAN, bl \in BlobLists, t \in Thresholds :
        LET img == [readable |-> rd, blobs |-> bl]
        IN  /\ call' = [op |-> "detect_defects", img |-> img, threshold |-> t]
            /\ ret' = detect_defects(img, t)
    /\ UNCHANGED <<angleVars, storeVars>>

\* a call of AOIService.detect_fiducial_marks
DetectFiducialMarks ==
    /\ call.op = "none"
    /\ \E rd \in BOOLEAN, cl \in CircleLists, ra \in RadiusArgs :
        LET img == [readable |-> rd, circles |-> cl]
        IN  /\ call' = [op |-> "detect_fiducial_marks", img |-> img,
                        minr |-> ra[1], maxr |-> ra[2]]
            /\ ret' = detect_fiducial_marks(img, ra[1], ra[2])
    /\ UNCHANGED <<angleVars, storeVars>>

\* a call of AOIService.measure_dimensions
MeasureDimensions ==
    /\ call.op = "none"
    /\ \E rd \in BOOLEAN, el \in EdgeLists, k \in PixelToMm :
        LET img == [readable |-> rd, edges |-> el]
        IN  /\ call' = [op |-> "measure_dimensions", img |-> img, pmm |-> k]
            /\ ret' = measure_dimensions(img, k)
    /\ UNCHANGED <<angleVars, storeVars>>

\* a run of the tutorial's dimension_measurement on an image with these
\* edge contours
DimensionMeasurement ==
    /\ call.op = "none"
    /\ \E el \in EdgeLists :
        /\ call' = [op |-> "dimension_measurement",
                    img |-> [readable |-> TRUE, edges |-> el]]
        /\ ret' = dimension_measurement(el)
    /\ UNCHANGED <<angleVars, storeVars>>

\* the call has returned to its caller; the service keeps nothing
ServiceDone ==
    /\ call.op # "none"
    /\ call' = [op |-> "none"]
    /\ ret' = [status |-> "none"]
    /\ UNCHANGED <<angleVars, storeVars>>

NextService ==
    \/ DetectDefects
    \/ DetectFiducialMarks
    \/ MeasureDimensions
    \/ DimensionMeasurement
    \/ ServiceDone

SpecService == Init /\ [][NextService]_vars

(***************************************************************************)
(* The orientation estimator on a whole image.  A region is what the       *)
(* OpenCV calls report of one contour: the number of its boundary points,  *)
(* cv2.contourArea and the box of cv2.minAreaRect.  minAreaRect raises     *)
(* nothing on a degenerate contour: one point gives a 0 x 0 box at angle   *)
(* 0, two points (or collinear ones) a box of height 0 along the segment.  *)
(***************************************************************************)
RegionKinds ==
    { [pts |-> 1, area |-> 0,     w |-> 0,   h |-> 0,   angle |-> 0],
      [pts |-> 2, area |-> 0,     w |-> 50,  h |-> 0,   angle |-> 0 - 135],
      [pts |-> 4, area |-> 0,     w |-> 20,  h |-> 30,  angle |-> 90],
      [pts |-> 4, area |-> 12000, w |-> 150, h |-> 80,  angle |-> 30],
      [pts |-> 4, area |-> 5000,  w |-> 50,  h |-> 100, angle |-> 0 - 20],
      [pts |-> 4, area |-> 3600,  w |-> 60,  h |-> 60,  angle |-> 90] }

\* the contours of cv2.findContours, in its order
RegionLists == { q \in SeqsUpTo(RegionKinds, MaxRegions) : NoRepeat(q) }

\* max(contours, key=cv2.contourArea): the first contour of largest area
LargestContour(cnt) ==
    CHOOSE i \in 1..Len(cnt) :
        /\ \A j \in 1..Len(cnt) : cnt[j].area <= cnt[i].area
        /\ \A j \in 1..(i - 1) : cnt[j].area < cnt[i].area

\* cv2.minAreaRect(contour): center, size, angle
MinAreaRect(c) == [w |-> c.w, h |-> c.h, angle |-> c.angle]

\* detect_rectangle_rotation(img) of the tutorial: (None, None, None) without
\* contours, else the angle of the largest contour; reported holds the
\* contours an angle was returned for
DetectLargest(cnt) ==
    IF Len(cnt) = 0
    THEN [status |-> "ok", angle |-> <<>>, reported |-> {}]
    ELSE LET i == LargestContour(cnt)
         IN  [status |-> "ok",
              angle |-> << detect_rectangle_rotation(MinAreaRect(cnt[i])) >>,
              reported |-> {i}]

\* mutant of DetectWithMinAreaRect: a negative angle is lifted by 360
DetectWithMinAreaRectLifted(b) ==
    LET a1 == IF b.w < b.h THEN b.angle + 90 ELSE b.angle
    IN  IF a1 < 0 THEN a1 + 360 ELSE a1

\* RotationDetector._detect_with_min_area_rect: the quarter turn, no lift
\* into [0, 360)
DetectWithMinAreaRect(b) ==
    IF b.w < b.h THEN b.angle + 90 ELSE b.angle

\* RotationDetector.detect with method 'minAreaRect'
RotationDetectorDetect(cnt) ==
    IF Len(cnt) = 0
    THEN [status |-> "ok", success |-> FALSE, angle |-> <<0>>, reported |-> {}]
    ELSE LET i == LargestContour(cnt)
         IN  [status |-> "ok", success |-> TRUE,
              angle |-> << DetectWithMinAreaRect(MinAreaRect(cnt[i])) >>,
              reported |-> {i}]

\* detect_rectangle_rotation(img) on the binary image of some regions
DetectRegions ==
    /\ call.op = "none"
    /\ \E cnt \in RegionLists :
        /\ call' = [op |-> "detect_rectangle_rotation", contours |-> cnt]
        /\ ret' = DetectLargest(cnt)
    /\ UNCHANGED <<angleVars, storeVars>>

\* RotationDetector('minAreaRect').detect(image) on the same images
DetectorDetect ==
    /\ call.op = "none"
    /\ \E cnt \in RegionLists :
        /\ call' = [op |-> "RotationDetector.detect", contours |-> cnt]
        /\ ret' = RotationDetectorDetect(cnt)
    /\ UNCHANGED <<angleVars, storeVars>>

\* RotationDetector._detect_with_min_area_rect(contour) on a contour with
\* any box cv2.minAreaRect can report
DetectorOnContour ==
    /\ call.op = "none"
    /\ \E b \in MinAreaRectAny :
        /\ call' = [op |-> "_detect_with_min_area_rect", rect |-> b]
        /\ ret' = [status |-> "ok", angle |-> << DetectWithMinAreaRect(b) >>]
    /\ UNCHANGED <<angleVars, storeVars>>

NextRegions ==
    \/ DetectRegions
    \/ DetectorDetect
    \/ DetectorOnContour
    \/ ServiceDone

SpecRegions == Init /\ [][NextRegions]_vars

(***************************************************************************)
(* AOIService behind the server: the upload folder, and the analyses       *)
(* running in several threads.  An invocation goes from the call to        *)
(* cv2.imread(path, 0), on to the analysis of the decoded array and the    *)
(* drawing of the annotations, and returns; other threads and uploads may  *)
(* step in between.                                                        *)
(***************************************************************************)
\* two boards an upload may store; marked says whether annotations are
\* painted into the pixels
BoardA ==
    [readable |-> TRUE, marked |-> FALSE,
     blobs |-> << [diff |-> 100, area |-> 400, x |-> 10, y |-> 10, w |-> 21, h |-> 21],
                  [diff |-> 20,  area |-> 300, x |-> 50, y |-> 50, w |-> 30, h |-> 11] >>,
     edges |-> << [area |-> 1257, perim |-> 126, x |-> 10, y |-> 10, w |-> 41, h |-> 41],
                  [area |-> 1800, perim |-> 180, x |-> 60, y |-> 10, w |-> 61, h |-> 31] >>,
     circles |-> << [x |-> 100, y |-> 100, r |-> 10], [x |-> 200, y |-> 100, r |-> 20] >>,
     regions |-> << [pts |-> 4, area |-> 12000, w |-> 150, h |-> 80, angle |-> 30] >>]

BoardB ==
    [readable |-> TRUE, marked |-> FALSE,
     blobs |-> << [diff |-> 40, area |-> 50, x |-> 10, y |-> 50, w |-> 9, h |-> 7] >>,
     edges |-> << [area |-> 99, perim |-> 40, x |-> 10, y |-> 60, w |-> 11, h |-> 11],
                  [area |-> 1800, perim |-> 180, x |-> 60, y |-> 10, w |-> 61, h |-> 31] >>,
     circles |-> << [x |-> 200, y |-> 200, r |-> 10] >>,
     regions |-> << [pts |-> 4, area |-> 3600, w |-> 60, h |-> 60, angle |-> 90],
                    [pts |-> 4, area |-> 5000, w |-> 50, h |-> 100, angle |-> 0 - 20] >>]

Boards == {BoardA, BoardB}

\* the analyses that take a path, and the arguments they are called with
PathOps == {"detect_defects", "measure_dimensions", "detect_fiducial_marks"}

ArgsOf(op) ==
    CASE op = "detect_defects" -> { <<30>>, <<1>> }
      [] op = "measure_dimensions" -> { <<10>> }
      [] op = "detect_fiducial_marks" -> { <<5, 25>>, <<5, 15>> }
      [] OTHER -> { <<>> }

\* what the analysis op returns for the decoded image img
AnalysisOf(op, img, args) ==
    CASE op = "detect_defects" -> detect_defects(img, args[1])
      [] op = "measure_dimensions" -> measure_dimensions(img, args[1])
      [] op = "detect_fiducial_marks" -> detect_fiducial_marks(img, args[1], args[2])
      [] OTHER -> DetectLargest(img.regions)

\* mutant of ImageSeen: the decoded image sits in a buffer all threads share,
\* the analysis works on what the last imread of another thread left there
ImageSeenShared(iv, w) ==
    LET others == { v \in Workers \ {w} : iv[v].pc = "loaded" }
    IN  IF others = {} THEN iv[w].img[1]
        ELSE iv[CHOOSE v \in others : TRUE].img[1]

\* img, the local of the invocation that holds the decoded image
ImageSeen(iv, w) == iv[w].img[1]

\* mutant of Annotate: the annotations are drawn into the input array
AnnotateInPlace(img) ==
    IF img.readable
    THEN [img |-> << [img EXCEPT !.marked = TRUE] >>,
          res |-> << [img EXCEPT !.marked = TRUE] >>]
    ELSE [img |-> <<img>>, res |-> <<>>]

\* res=cv2.cvtColor(img,8) and the cv2 drawing calls on res: a new array
\* carries the annotations, img is left as decoded; cvtColor raises on None
Annotate(img) ==
    IF img.readable
    THEN [img |-> <<img>>, res |-> << [img EXCEPT !.marked = TRUE] >>]
    ELSE [img |-> <<img>>, res |-> <<>>]

\* mutant of StoreResult: one result object is shared by all calls, a
\* returning call overwrites what the returned ones hold
StoreResultShared(iv, w, an, r) ==
    [v \in Workers |->
        IF v = w
        THEN [iv[v] EXCEPT !.pc = "returned", !.img = an.img, !.res = an.res,
                           !.out = <<r>>]
        ELSE IF iv[v].pc = "returned"
        THEN [iv[v] EXCEPT !.out = <<r>>]
        ELSE iv[v]]

\* the return statement: the dict built in this call goes to its caller
StoreResult(iv, w, an, r) ==
    [iv EXCEPT ![w] = [@ EXCEPT !.pc = "returned", !.img = an.img,
                                !.res = an.res, !.out = <<r>>]]

\* ImageHandler.save_uploaded_image: a decodable image is stored under a
\* fresh name
Upload ==
    \E p \in Paths, b \in Boards :
        /\ files[p] = NoImage
        /\ files' = [files EXCEPT ![p] = b]
        /\ UNCHANGED <<angleVars, svcVars, folder, inv, memo>>

\* a route calls an analysis of AOIService with a path
Invoke(w) ==
    /\ inv[w].pc = "idle"
    /\ \E op \in PathOps, p \in Paths :
        \E a \in ArgsOf(op) :
            inv' = [inv EXCEPT ![w] =
                      [IdleInvocation EXCEPT !.pc = "called", !.op = op,
                                             !.path = p, !.args = a]]
    /\ UNCHANGED <<angleVars, svcVars, folder, files, memo>>

\* img=cv2.imread(path,0), the first statement of each analysis
Imread(w) ==
    /\ inv[w].pc = "called"
    /\ inv' = [inv EXCEPT ![w] =
                 [@ EXCEPT !.pc = "loaded",
                           !.io = Append(@, [kind |-> "read", path |-> inv[w].path]),
                           !.seen = << files[inv[w].path] >>,
                           !.img = << files[inv[w].path] >>]]
    /\ UNCHANGED <<angleVars, svcVars, folder, files, memo>>

\* detect_rectangle_rotation(img) is handed an array in memory
InvokeEstimator(w) ==
    /\ inv[w].pc = "idle"
    /\ \E b \in Boards :
        inv' = [inv EXCEPT ![w] =
                  [IdleInvocation EXCEPT !.pc = "loaded",
                                         !.op = "detect_rectangle_rotation",
                                         !.path = "memory",
                                         !.seen = <<b>>, !.img = <<b>>]]
    /\ UNCHANGED <<angleVars, svcVars, folder, files, memo>>

\* the rest of the analysis, up to its return
Analyse(w) ==
    /\ inv[w].pc = "loaded"
    /\ LET img == ImageSeen(inv, w)
       IN  inv' = StoreResult(inv, w, Annotate(img),
                              AnalysisOf(inv[w].op, img, inv[w].args))
    /\ UNCHANGED <<angleVars, svcVars, folder, files, memo>>

\* the caller is done with the result; it may keep it to compare a later
\* call with
Release(w) ==
    /\ inv[w].pc = "returned"
    /\ inv' = [inv EXCEPT ![w] = IdleInvocation]
    /\ \E keep \in BOOLEAN :
        memo' = IF keep /\ memo = <<>>
                THEN << [op |-> inv[w].op, args |-> inv[w].args,
                         seen |-> inv[w].seen, out |-> inv[w].out] >>
                ELSE memo
    /\ UNCHANGED <<angleVars, svcVars, folder, files>>

NextStore ==
    \/ Upload
    \/ \E w \in Workers : Invoke(w)
    \/ \E w \in Workers : Imread(w)
    \/ \E w \in Workers : InvokeEstimator(w)
    \/ \E w \in Workers : Analyse(w)
    \/ \E w \in Workers : Release(w)

SpecStore == Init /\ [][NextStore]_vars

(***************************************************************************)
(* calculate_gripper_rotation of the tutorial.  Its arguments are Python   *)
(* floats: above 2^62 neighbouring floats are more than 720 apart, and     *)
(* x - 360 rounds back to x.  Huge stands for such a float (1e20 is one).  *)
(***************************************************************************)
Huge == 2^30

\* x - y in float arithmetic on the values of the model
FloatSub(x, y) == IF Abs(x) >= Huge THEN x ELSE x - y

\* x + y in float arithmetic on the values of the model
FloatAdd(x, y) == IF Abs(x) >= Huge THEN x ELSE x + y

\* detected_angle arguments: the angles the detector returns, angles outside
\* [0, 360), and very large floats
DetectedAngles == (0..359) \cup {0 - 900, 0 - 540, 0 - 181, 540, 900, Huge, 0 - Huge}

\* reference_angle arguments
ReferenceAngles == {0, 90, 180, 359}

\* one pass of the two while loops over compensation_angle
NormalizeStep(c) ==
    IF c > 180 THEN FloatSub(c, 360)
    ELSE IF c < 0 - 180 THEN FloatAdd(c, 360)
    ELSE c

\* calculate_gripper_rotation(detected_angle, reference_angle) is called:
\* compensation_angle = detected_angle - reference_angle
GripperCall ==
    /\ call.op = "none"
    /\ \E d \in DetectedAngles, r \in ReferenceAngles :
        /\ call' = [op |-> "calculate_gripper_rotation",
                    detected_angle |-> d, reference_angle |-> r]
        /\ ret' = [status |-> "running", compensation_angle |-> FloatSub(d, r),
                   odd |-> FALSE]
    /\ UNCHANGED <<angleVars, storeVars>>

\* one iteration of "while compensation_angle > 180" or of
\* "while compensation_angle < -180"; odd tells whether the number of
\* iterations so far is odd
GripperLoop ==
    /\ call.op = "calculate_gripper_rotation" /\ ret.status = "running"
    /\ (ret.compensation_angle > 180 \/ ret.compensation_angle < 0 - 180)
    /\ ret' = [ret EXCEPT !.compensation_angle = NormalizeStep(@), !.odd = ~@]
    /\ UNCHANGED <<angleVars, storeVars, call>>

\* both loops are left: return compensation_angle
GripperReturn ==
    /\ call.op = "calculate_gripper_rotation" /\ ret.status = "running"
    /\ ~(ret.compensation_angle > 180 \/ ret.compensation_angle < 0 - 180)
    /\ ret' = [ret EXCEPT !.status = "ok"]
    /\ UNCHANGED <<angleVars, storeVars, call>>

\* the caller goes on
GripperDone ==
    /\ call.op = "calculate_gripper_rotation" /\ ret.status = "ok"
    /\ call' = [op |-> "none"]
    /\ ret' = [status |-> "none"]
    /\ UNCHANGED <<angleVars, storeVars>>

NextGripper ==
    \/ GripperCall
    \/ GripperLoop
    \/ GripperReturn
    \/ GripperDone

\* the interpreter keeps executing a call that has started
SpecGripper ==
    Init /\ [][NextGripper]_vars /\ WF_vars(GripperLoop \/ GripperReturn)

(***************************************************************************)
(* The upload and /process routes.  A file of the upload folder is         *)
(* [id, ext, content]: its name is id.ext and content is what cv2.imread   *)
(* decodes it to (NoImage when it cannot).  A file name is the sequence of *)
(* its parts between the dots.  Image ids name files of the folder.        *)
(***************************************************************************)
ALLOWED_EXTENSIONS == {"png", "jpg", "jpeg", "bmp", "tiff"}

\* str.lower() on the extensions of the model
Lower(x) ==
    CASE x = "PNG" -> "png"
      [] x = "Jpg" -> "jpg"
      [] OTHER -> x

\* ImageHandler.allowed_file(f): "." in f and the last part, lowered, allowed
allowed_file(f) ==
    Len(f) >= 2 /\ Lower(f[Len(f)]) \in ALLOWED_EXTENSIONS

\* names of uploaded files; <<>> is the empty file name
Filenames ==
    { <<>>, <<"board", "png">>, <<"board", "PNG">>, <<"scan", "v2", "Jpg">>,
      <<"notes", "txt">>, <<"png">> }

\* uuid4 strings
Ids == {"u1", "u2", "u3"}

\* the ids of the files of the folder
StoredIds(fold) == { f.id : f \in fold }

\* ImageHandler.get_image_path(id, folder): the first id.e that exists, else
\* None (<<>>)
get_image_path(id, fold) ==
    LET found == { f \in fold : f.id = id /\ f.ext \in ALLOWED_EXTENSIONS }
    IN  IF found = {} THEN <<>> ELSE << CHOOSE f \in found : TRUE >>

\* mutant of AfterImread: the undecodable file is left in the folder
AfterImreadKeep(fold, f) == fold

\* "if img is None: os.remove(path)": the folder after save_uploaded_image
\* has tried to decode the file f it saved
AfterImread(fold, f) ==
    IF f.content.readable THEN fold ELSE fold \ {f}

\* POST /upload reaches its try block
UploadImage ==
    /\ call.op = "none"
    /\ \E present \in BOOLEAN, name \in Filenames, c \in Boards \cup {NoImage} :
        \E id \in Ids \ StoredIds(folder) :
            LET request == [op |-> "upload_image", present |-> present,
                            filename |-> name, content |-> c, id |-> id,
                            before |-> folder]
            IN  IF ~present \/ name = <<>>
                THEN /\ call' = [request EXCEPT !.id = "none"]
                     /\ ret' = [status |-> "done", http |-> 400, success |-> FALSE,
                                code |-> "NO_FILE"]
                     /\ folder' = folder
                ELSE IF ~allowed_file(name)
                THEN /\ call' = [request EXCEPT !.id = "none"]
                     /\ ret' = [status |-> "done", http |-> 500, success |-> FALSE,
                                code |-> "ERROR"]
                     /\ folder' = folder
                ELSE /\ call' = request
                     /\ ret' = [status |-> "saved"]
                     /\ folder' = folder \cup
                            { [id |-> id, ext |-> Lower(name[Len(name)]), content |-> c] }
    /\ UNCHANGED <<angleVars, files, inv, memo>>

\* the file save_uploaded_image has written in the running upload
SavedFile ==
    [id |-> call.id, ext |-> Lower(call.filename[Len(call.filename)]),
     content |-> call.content]

\* save_uploaded_image after file.save(path): cv2.imread, and the response
UploadDecode ==
    /\ call.op = "upload_image" /\ ret.status = "saved"
    /\ folder' = AfterImread(folder, SavedFile)
    /\ ret' = IF call.content.readable
              THEN [status |-> "done", http |-> 200, success |-> TRUE,
                    image_id |-> call.id]
              ELSE [status |-> "done", http |-> 500, success |-> FALSE,
                    code |-> "ERROR"]
    /\ UNCHANGED <<angleVars, files, inv, memo, call>>

\* the routes of process.py and the analysis each calls
Routes == {"defect_detection", "measurement", "fiducial_detection"}

RouteOp(route) ==
    CASE route = "defect_detection" -> "detect_defects"
      [] route = "measurement" -> "measure_dimensions"
      [] OTHER -> "detect_fiducial_marks"

\* the parameters a request gives, each <<>> when absent: threshold,
\* calibration.pixel_to_mm (hundredths), min_radius and max_radius
GivenParams(route) ==
    CASE route = "defect_detection" -> { << <<>> >>, << <<1>> >> }
      [] route = "measurement" -> { << <<>> >>, << <<20>> >> }
      [] OTHER -> { << <<>>, <<>> >>, << <<15>>, <<>> >>, << <<>>, <<15>> >> }

\* mutant of RouteArgs: no defaults, an absent parameter is 0
RouteArgsZero(route, given) ==
    [i \in 1..Len(given) |-> IF given[i] = <<>> THEN 0 ELSE given[i][1]]

\* d.get("threshold",30), d.get("calibration",{}).get("pixel_to_mm",0.1),
\* d.get("min_radius",5), d.get("max_radius",25)
RouteArgs(route, given) ==
    LET default == CASE route = "defect_detection" -> <<30>>
                     [] route = "measurement" -> <<10>>
                     [] OTHER -> <<5, 25>>
    IN  [i \in 1..Len(given) |-> IF given[i] = <<>> THEN default[i] ELSE given[i][1]]

\* the response of a /process route; called tells whether AOIService ran.
\* A request without image_id raises KeyError, a parameter of the wrong type
\* (mistyped) raises inside cv2
RouteResponse(route, image_id, given, mistyped, fold) ==
    IF image_id = <<>>
    THEN [status |-> "done", http |-> 500, success |-> FALSE, code |-> "ERROR",
          called |-> FALSE, body |-> <<>>]
    ELSE LET p == get_image_path(image_id[1], fold)
         IN  IF p = <<>>
             THEN [status |-> "done", http |-> 404, success |-> FALSE,
                   code |-> "NOT_FOUND", called |-> FALSE, body |-> <<>>]
             ELSE LET r == IF mistyped THEN [status |-> "TypeError"]
                           ELSE AnalysisOf(RouteOp(route), p[1].content,
                                           RouteArgs(route, given))
                  IN  IF r.status # "ok"
                      THEN [status |-> "done", http |-> 500, success |-> FALSE,
                            code |-> "ERROR", called |-> TRUE, body |-> <<>>]
                      ELSE [status |-> "done", http |-> 200, success |-> TRUE,
                            code |-> "none", called |-> TRUE, body |-> <<r>>]

\* a POST to one of the /process routes
ProcessRequest ==
    /\ call.op = "none"
    /\ \E route \in Routes, image_id \in { <<>> } \cup { <<i>> : i \in Ids },
          mistyped \in BOOLEAN :
        \E given \in GivenParams(route) :
            /\ (mistyped => route # "measurement")
            /\ call' = [op |-> route, image_id |-> image_id, given |-> given,
                        mistyped |-> mistyped]
            /\ ret' = RouteResponse(route, image_id, given, mistyped, folder)
    /\ UNCHANGED <<angleVars, storeVars>>

\* the response is sent
RequestDone ==
    /\ call.op \in Routes \cup {"upload_image"} /\ ret.status = "done"
    /\ call' = [op |-> "none"]
    /\ ret' = [status |-> "none"]
    /\ UNCHANGED <<angleVars, storeVars>>

NextWeb ==
    \/ UploadImage
    \/ UploadDecode
    \/ ProcessRequest
    \/ RequestDone

SpecWeb == Init /\ [][NextWeb]_vars

(***************************************************************************)
(* Claims about the orientation estimator, checked under SpecAngle.        *)
(***************************************************************************)
\* a call of detect_rectangle_rotation (or the same lines of test_angle) has
\* returned canon for box
Canonicalized == last \in {"detect", "again", "test"}

\* fix_180_ambiguity has returned resolved for (canon, reference)
Resolved == last \in {"fix", "test"}

\* distance of two angles on the circle, 0..180
CircDist(a, b) ==
    LET d == (a - b) % 360
    IN  IF d > 180 THEN 360 - d ELSE d

\* the other description of the same rectangle: the edge pairs swapped and the
\* first edge a quarter turn away, when minAreaRect can report it
AltDescriptions(b) ==
    { a \in MinAreaRectAny :
        /\ a.w = b.h /\ a.h = b.w
        /\ (a.angle = b.angle + 90 \/ a.angle = b.angle - 90) }

\* C1: the angle detect_rectangle_rotation returns for a box that minAreaRect
\* can report lies in [0, 360).
C1_AngleInRange ==
    Canonicalized => (0 <= canon /\ canon < 360)

\* C1 witness: a negative raw angle of a box whose first edge is the long one
\* was lifted by 360.
C1_Witness ==
    /\ last = "detect" /\ box.w > box.h /\ box.angle < 0
    /\ canon = box.angle + 360

\* C2: the value fix_180_ambiguity returns is at most 90 degrees from the
\* reference, measured on the circle.
C2_WithinNinetyOfReference ==
    Resolved => CircDist(resolved, reference) <= 90

C4_WidthHeightRule ==
    Canonicalized =>
        /\ canon \in Int
        /\ (canon - box.angle) % 360 = (IF box.w < box.h THEN 90 ELSE 0)
        /\ (box.w = box.h => canon % 360 = box.angle % 360)
        /\ (prevCanon # <<>> => prevCanon[1] = canon)

\* C4 witness: a square box, canonicalized twice.
C4_Witness ==
    /\ last = "again" /\ box.w = box.h /\ box.angle > 0
    /\ prevCanon = <<canon>> /\ canon = box.angle

C6_EdgeAmbiguityRemoved ==
    Canonicalized =>
        /\ \A a \in AltDescriptions(box) :
              (detect_rectangle_rotation(a) - canon) % 180 = 0
        /\ (last = "test" /\ fitErr = 0) => (canon - theta) % 180 = 0

\* C6 amended: the same for boxes whose edges differ (width # height); a
\* square box keeps a 90-degree ambiguity.
C6_EdgeAmbiguityRemovedNonSquare ==
    (Canonicalized /\ box.w # box.h) =>
        /\ \A a \in AltDescriptions(box) :
              (detect_rectangle_rotation(a) - canon) % 180 = 0
        /\ (last = "test" /\ fitErr = 0) => (canon - theta) % 180 = 0

\* C6 witness: a non-square box with another description, whose canonical
\* angle is the other's plus a half turn.
C6_Witness ==
    /\ last = "detect" /\ box.w > box.h /\ box.angle < 0
    /\ \E a \in AltDescriptions(box) : canon = detect_rectangle_rotation(a) + 180

(***************************************************************************)
(* Claims about AOIService, checked under SpecService.                     *)
(***************************************************************************)
\* detect_fiducial_marks was called on a decodable image
FiducialCalled == call.op = "detect_fiducial_marks" /\ call.img.readable

\* the circles the search of that call found
FoundCircles == HoughCircles(call.img, call.minr, call.maxr)

\* detect_defects was called on a decodable image
DefectsCalled == call.op = "detect_defects" /\ call.img.readable

\* C7: with two or more marks found the rotation estimate is present and is
\* atan2(dy, dx) in degrees between the first two marks in discovery order.
C7_RotationFromFirstTwoMarks ==
    (FiducialCalled /\ Len(FoundCircles) >= 2) =>
        /\ ret.status = "ok"
        /\ ret.rotation_angle =
              << Atan2Centi(FoundCircles[2].y - FoundCircles[1].y,
                            FoundCircles[2].x - FoundCircles[1].x) >>

\* C8: with fewer than two marks found the rotation estimate is absent, the
\* mark list holds exactly the circles found, and no error is raised.
C8_FewerThanTwoMarks ==
    (FiducialCalled /\ Len(FoundCircles) < 2) =>
        /\ ret.status = "ok"
        /\ ret.rotation_angle = <<>>
        /\ Len(ret.marks) = Len(FoundCircles)
        /\ \A i \in 1..Len(FoundCircles) :
              /\ ret.marks[i].position.x = FoundCircles[i].x
              /\ ret.marks[i].position.y = FoundCircles[i].y
              /\ ret.marks[i].radius = FoundCircles[i].r

\* C8 witness: the image holds circles, the search accepted exactly one.
C8_Witness ==
    /\ FiducialCalled /\ Len(call.img.circles) >= 2
    /\ Len(FoundCircles) = 1
    /\ ret.status = "ok" /\ Len(ret.marks) = 1 /\ ret.rotation_angle = <<>>

\* C9: detect_defects with threshold <= 0 is rejected with InvalidParameter
\* and returns no defect list.
C9_NonPositiveThresholdRejected ==
    (DefectsCalled /\ call.threshold <= 0) =>
        ret.status = "InvalidParameter"

\* C10: detect_fiducial_marks with minRadius >= maxRadius is rejected with
\* InvalidParameter and returns no marks and no rotation estimate.
C10_EmptyRadiusRangeRejected ==
    (FiducialCalled /\ call.minr >= call.maxr) =>
        ret.status = "InvalidParameter"

\* measure_dimensions was called on a decodable image
MeasureCalled == call.op = "measure_dimensions" /\ call.img.readable

\* the contours of the defect mask of that call that reach 50 px^2, in order
QualifyingContours ==
    SelectSeq(DefectContours(call.img, call.threshold),
              LAMBDA c : c.area >= 50)

\* C11: on an all-uniform image detect_defects returns an empty defect list
\* and count 0, without error, for every threshold it accepts.
C11_UniformImageNoDefects ==
    (DefectsCalled /\ call.img.blobs = <<>>) =>
        /\ ret.status = "ok"
        /\ ret.defects = <<>>
        /\ ret.defect_count = 0

\* C12: the k-th qualifying contour met becomes the defect with id k: the ids
\* are 1..n and the list keeps the order of discovery.
C12_DefectIdsSequential ==
    DefectsCalled =>
        /\ Len(ret.defects) = Len(QualifyingContours)
        /\ \A i \in 1..Len(ret.defects) :
              /\ ret.defects[i].id = i
              /\ ret.defects[i].area = QualifyingContours[i].area
              /\ ret.defects[i].bbox.x = QualifyingContours[i].x
              /\ ret.defects[i].bbox.y = QualifyingContours[i].y

\* C12 witness: three contours, the middle one below 50 px^2; the two defects
\* are sorted neither by position nor by size.
C12_Witness ==
    /\ DefectsCalled
    /\ Len(DefectContours(call.img, call.threshold)) = 3
    /\ DefectContours(call.img, call.threshold)[2].area < 50
    /\ Len(ret.defects) = 2
    /\ ret.defects[1].id = 1 /\ ret.defects[2].id = 2
    /\ ret.defects[1].bbox.x > ret.defects[2].bbox.x
    /\ ret.defects[1].area < ret.defects[2].area

\* C13: the measurement records of one call carry the ids 1, 2, ..., n
\* without gaps, also when contours were discarded.
C13_MeasurementIdsSequential ==
    (MeasureCalled /\ ret.status = "ok") =>
        \A i \in 1..Len(ret.measurements) :
            ret.measurements[i].object_id = i

\* C14: the i-th circle of the search is the mark with id i; every accepted
\* circle is exactly one mark and the order is the search's.
C14_MarkIdsSequential ==
    FiducialCalled =>
        /\ ret.status = "ok"
        /\ Len(ret.marks) = Len(FoundCircles)
        /\ \A i \in 1..Len(FoundCircles) :
              /\ ret.marks[i].id = i
              /\ ret.marks[i].position.x = FoundCircles[i].x
              /\ ret.marks[i].position.y = FoundCircles[i].y
              /\ ret.marks[i].radius = FoundCircles[i].r

\* C14 witness: three marks, in an order that is not that of their positions.
C14_Witness ==
    /\ FiducialCalled /\ Len(ret.marks) = 3
    /\ ret.marks[3].id = 3
    /\ ret.marks[1].position.x > ret.marks[2].position.x
    /\ ret.marks[2].position.x < ret.marks[3].position.x

\* C15: a record has shape circle exactly when 4*pi*area/perimeter^2 > 0.8
\* and shape rectangle otherwise, and carries a diameter exactly when its
\* shape is circle.
C15_CircleIffCircular ==
    (MeasureCalled /\ ret.status = "ok") =>
        \A j \in 1..Len(ret.measurements) :
            LET m == ret.measurements[j]
                c == call.img.edges[m.object_id]
                circular == /\ c.perim > 0
                            /\ 4 * 355 * c.area * 10 > 8 * 113 * c.perim * c.perim
            IN  /\ m.shape \in {"circle", "rectangle"}
                /\ (m.shape = "circle") <=> circular
                /\ (m.diameter_mm # <<>>) <=> (m.shape = "circle")

\* C15 witness: one call reports a circle with its diameter and a rectangle
\* without one.
C15_Witness ==
    /\ MeasureCalled /\ ret.status = "ok"
    /\ \E i, j \in 1..Len(ret.measurements) :
          /\ ret.measurements[i].shape = "circle"
          /\ ret.measurements[i].diameter_mm # <<>>
          /\ ret.measurements[j].shape = "rectangle"
          /\ ret.measurements[j].diameter_mm = <<>>

\* C16: a contour of perimeter 0 gets circularity 0 with no division by zero
\* and is never a circle: the tutorial's loop prints it as a rectangle, and
\* no record of measure_dimensions for such a contour is a circle.
C16_ZeroPerimeterIsRectangle ==
    /\ call.op = "dimension_measurement" =>
          /\ ret.status = "ok"
          /\ \A i \in 1..Len(call.img.edges) :
                call.img.edges[i].perim = 0 => ret.printed[i].shape = "rectangle"
    /\ MeasureCalled =>
          /\ ret.status = "ok"
          /\ \A j \in 1..Len(ret.measurements) :
                call.img.edges[ret.measurements[j].object_id].perim = 0
                    => ret.measurements[j].shape = "rectangle"

\* C16 witness: the tutorial's loop met a contour of perimeter 0 and printed
\* it as a rectangle.
C16_Witness ==
    /\ call.op = "dimension_measurement" /\ ret.status = "ok"
    /\ \E i \in 1..Len(call.img.edges) :
          /\ call.img.edges[i].perim = 0
          /\ ret.printed[i].shape = "rectangle"

(***************************************************************************)
(* Claims about the estimator on a whole image, checked under SpecRegions. *)
(***************************************************************************)
\* a pass over the regions of an image has returned
RegionsCalled ==
    call.op \in {"detect_rectangle_rotation", "RotationDetector.detect"}

\* fewer than 3 boundary points, or zero area
Degenerate(c) == c.pts < 3 \/ c.area = 0

\* C17: the fit of a degenerate region fails and the pass skips that region
\* only: the regions an orientation is reported for are exactly the
\* non-degenerate regions of the image.
C17_DegenerateRegionSkipped ==
    RegionsCalled =>
        ret.reported = { i \in 1..Len(call.contours) :
                            ~Degenerate(call.contours[i]) }

(***************************************************************************)
(* Claims about the analyses behind the server, checked under SpecStore.   *)
(***************************************************************************)
\* the invocation of worker w has returned
Returned(w) == inv[w].pc = "returned"

\* two finished runs had the same analysis, parameters and input
SameRun(a, b) == a.op = b.op /\ a.args = b.args /\ a.seen = b.seen

C19_NoSharedState ==
    /\ [](\A w \in Workers :
            Returned(w) =>
                inv[w].out = << AnalysisOf(inv[w].op, inv[w].seen[1], inv[w].args) >>)
    /\ [][ /\ \A w \in Workers :
                (Returned(w) /\ inv'[w].pc = "returned") => inv'[w] = inv[w]
           /\ memo # <<>> => memo' = memo ]_vars

\* C19 witness: one thread has returned its result while the other, running
\* the same analysis on another image, is between its imread and its return.
C19_Witness ==
    \E w, v \in Workers :
        /\ Returned(w) /\ inv[v].pc = "loaded"
        /\ inv[v].op = inv[w].op /\ inv[v].args = inv[w].args
        /\ inv[v].seen # inv[w].seen
        /\ inv[w].out[1].status = "ok"
        /\ inv[w].out[1] # AnalysisOf(inv[v].op, inv[v].seen[1], inv[v].args)

\* the input array of a returned call is as it was decoded, and the
\* annotations are on another array
InputUntouched(w) ==
    Returned(w) =>
        /\ inv[w].img = inv[w].seen
        /\ inv[w].seen[1].readable =>
              /\ inv[w].res # <<>>
              /\ inv[w].res[1].marked
              /\ ~inv[w].img[1].marked

AnalysisCalled ==
    /\ call.op \in {"detect_defects", "measure_dimensions", "detect_fiducial_marks"}
    /\ call.img.readable

\* the field of the result that holds the records of the analysis
RecordsField ==
    CASE call.op = "detect_defects" -> "defects"
      [] call.op = "measure_dimensions" -> "measurements"
      [] OTHER -> "marks"

\* C21: every call of the three analyses that returns a result returns the
\* annotated image together with the records, also with an empty record list
\* or without a rotation estimate.
C21_AnnotatedImageAlways ==
    (AnalysisCalled /\ ret.status = "ok") =>
        /\ "annotated_image" \in DOMAIN ret
        /\ ret.annotated_image
        /\ RecordsField \in DOMAIN ret

\* C21 witness: one mark found, no rotation estimate, the annotated image is
\* there.
C21_Witness ==
    /\ FiducialCalled /\ ret.status = "ok"
    /\ Len(ret.marks) = 1 /\ ret.rotation_angle = <<>>
    /\ ret.annotated_image

\* C22: every defect record has area >= 50 px^2, every contour of the mask
\* with area >= 50 has exactly one record, and a contour below 50 has none.
C22_AreaFilter ==
    DefectsCalled =>
        LET cnt == DefectContours(call.img, call.threshold)
            RecordsOf(c) ==
                { j \in 1..Len(ret.defects) :
                    /\ ret.defects[j].bbox.x = c.x /\ ret.defects[j].bbox.y = c.y
                    /\ ret.defects[j].area = c.area }
        IN  /\ \A j \in 1..Len(ret.defects) : ret.defects[j].area >= 50
            /\ \A i \in 1..Len(cnt) :
                  Cardinality(RecordsOf(cnt[i])) = (IF cnt[i].area >= 50 THEN 1 ELSE 0)
            /\ ret.defect_count = Len(ret.defects)

\* C22 witness: a contour of 49 px^2 is left out and one of exactly 50 px^2
\* is reported.
C22_Witness ==
    /\ DefectsCalled
    /\ \E i \in 1..Len(DefectContours(call.img, call.threshold)) :
          DefectContours(call.img, call.threshold)[i].area = 49
    /\ \E j \in 1..Len(ret.defects) : ret.defects[j].area = 50
    /\ Len(ret.defects) < Len(DefectContours(call.img, call.threshold))

\* C23: the position of a defect record is (x + floor(width/2),
\* y + floor(height/2)) of its own bounding box, which lies inside the box,
\* and its area is the area of its contour.
C23_CentroidIsBoxCentre ==
    DefectsCalled =>
        \A j \in 1..Len(ret.defects) :
            LET d == ret.defects[j]
                c == QualifyingContours[j]
            IN  /\ d.position.x = d.bbox.x + (d.bbox.width \div 2)
                /\ d.position.y = d.bbox.y + (d.bbox.height \div 2)
                /\ d.bbox.x <= d.position.x /\ d.position.x < d.bbox.x + d.bbox.width
                /\ d.bbox.y <= d.position.y /\ d.position.y < d.bbox.y + d.bbox.height
                /\ d.area = c.area
                /\ d.bbox = [x |-> c.x, y |-> c.y, width |-> c.w, height |-> c.h]

\* C23 witness: a box of odd width and height, the halves rounded down.
C23_Witness ==
    /\ DefectsCalled
    /\ \E j \in 1..Len(ret.defects) :
          /\ ret.defects[j].bbox.width % 2 = 1
          /\ ret.defects[j].bbox.height % 2 = 1
          /\ 2 * (ret.defects[j].position.x - ret.defects[j].bbox.x)
                = ret.defects[j].bbox.width - 1

\* the image of the call with the first two circles found in the other order
SwappedMarks ==
    [call.img EXCEPT !.circles =
        <<FoundCircles[2], FoundCircles[1]>> \o SubSeq(FoundCircles, 3, Len(FoundCircles))]

\* C24: with the two basis marks met in the other order the rotation angle
\* differs by exactly 180 degrees modulo 360, and both estimates are present.
C24_SwapMarksHalfTurn ==
    (FiducialCalled /\ Len(FoundCircles) >= 2) =>
        LET swapped == detect_fiducial_marks(SwappedMarks, call.minr, call.maxr)
        IN  /\ ret.rotation_angle # <<>>
            /\ swapped.rotation_angle # <<>>
            /\ (swapped.rotation_angle[1] - ret.rotation_angle[1]) % 36000 = 18000

\* the records of the same call at twice the scale
AtTwiceTheScale == measure_dimensions(call.img, 2 * call.pmm).measurements

\* a measurement call whose doubled scale is one of the model's scales
ScaleDoubles ==
    /\ MeasureCalled /\ ret.status = "ok"
    /\ 2 * call.pmm \in PixelToMm

\* C25: lengths are linear and the area quadratic in the scale: doubling the
\* scale doubles width_mm and height_mm and multiplies area_mm2 by 4.
C25_ScalingExact ==
    ScaleDoubles =>
        \A j \in 1..Len(ret.measurements) :
            /\ AtTwiceTheScale[j].width_mm = 2 * ret.measurements[j].width_mm
            /\ AtTwiceTheScale[j].height_mm = 2 * ret.measurements[j].height_mm
            /\ AtTwiceTheScale[j].area_mm2 = 4 * ret.measurements[j].area_mm2

\* C25 as the code has it: width_mm and height_mm are the pixel lengths times
\* the scale, area_mm2 is the pixel area times the squared scale rounded to
\* the nearest hundredth; doubling the scale doubles the lengths and
\* multiplies the area by 4 up to that rounding.
C25_ScalingUpToRounding ==
    (MeasureCalled /\ ret.status = "ok") =>
        \A j \in 1..Len(ret.measurements) :
            LET m == ret.measurements[j]
                c == call.img.edges[m.object_id]
                k == call.pmm
            IN  /\ m.width_mm = c.w * k
                /\ m.height_mm = c.h * k
                /\ Abs(100 * m.area_mm2 - c.area * k * k) <= 50
                /\ ScaleDoubles =>
                      /\ AtTwiceTheScale[j].width_mm = 2 * m.width_mm
                      /\ AtTwiceTheScale[j].height_mm = 2 * m.height_mm
                      /\ Abs(AtTwiceTheScale[j].area_mm2 - 4 * m.area_mm2) <= 2

\* C25 witness: at 0.05 mm/px the area of the disc is rounded, and four times
\* it is not the area at 0.1 mm/px.
C25_Witness ==
    /\ ScaleDoubles
    /\ \E j \in 1..Len(ret.measurements) :
          /\ 100 * ret.measurements[j].area_mm2
                # call.img.edges[ret.measurements[j].object_id].area * call.pmm * call.pmm
          /\ AtTwiceTheScale[j].area_mm2 # 4 * ret.measurements[j].area_mm2
          /\ AtTwiceTheScale[j].width_mm = 2 * ret.measurements[j].width_mm

(***************************************************************************)
(* Further claims about the orientation estimator, checked under SpecAngle.*)
(***************************************************************************)
\* C26: fix_180_ambiguity returns the angle or (angle + 180) mod 360; it
\* flips only when |angle - reference| > 90 and the flipped value is strictly
\* nearer in |value - reference|; the result is never farther than the input,
\* and an input within 90 of the reference comes back unchanged.
C26_FixAsImplemented ==
    Resolved =>
        LET flipped == (canon + 180) % 360
        IN  /\ resolved \in {canon, flipped}
            /\ resolved # canon =>
                  /\ Abs(canon - reference) > 90
                  /\ Abs(flipped - reference) < Abs(canon - reference)
            /\ Abs(resolved - reference) <= Abs(canon - reference)
            /\ Abs(canon - reference) <= 90 => resolved = canon

\* C26 witness: a flip that wraps around 360, strictly nearer to the
\* reference.
C26_Witness ==
    /\ last = "fix" /\ resolved # canon
    /\ canon + 180 >= 360 /\ resolved = canon - 180
    /\ Abs(resolved - reference) < Abs(canon - reference)

(***************************************************************************)
(* Claims about calculate_gripper_rotation, checked under SpecGripper.     *)
(***************************************************************************)
\* calculate_gripper_rotation is running
GripperRunning == call.op = "calculate_gripper_rotation" /\ ret.status = "running"

\* calculate_gripper_rotation has returned
GripperReturned == call.op = "calculate_gripper_rotation" /\ ret.status = "ok"

\* C27: calculate_gripper_rotation terminates for every finite input, and
\* the compensation c it returns has -180 <= c <= 180 and is congruent to
\* detected - reference modulo 360.
C27_GripperRotation ==
    /\ [](GripperReturned =>
            /\ 0 - 180 <= ret.compensation_angle /\ ret.compensation_angle <= 180
            /\ (ret.compensation_angle
                  - (call.detected_angle - call.reference_angle)) % 360 = 0)
    /\ (GripperRunning ~> GripperReturned)

(***************************************************************************)
(* RotationDetector against the tutorial, checked under SpecRegions.       *)
(***************************************************************************)
\* RotationDetector has fitted a contour: directly, or the largest of detect
DetectorFitted ==
    \/ call.op = "_detect_with_min_area_rect"
    \/ call.op = "RotationDetector.detect" /\ call.contours # <<>>

\* the box cv2.minAreaRect reported in that call
FittedRect ==
    IF call.op = "_detect_with_min_area_rect" THEN call.rect
    ELSE MinAreaRect(call.contours[LargestContour(call.contours)])

\* C28: RotationDetector's angle agrees modulo 360 with the angle
\* detect_rectangle_rotation gives for the same fit; it is that angle when
\* the angle after the quarter-turn rule is >= 0, and that angle minus 360,
\* a negative value, otherwise.
C28_DetectorAgreesModulo360 ==
    DetectorFitted =>
        LET b == FittedRect
            canonical == detect_rectangle_rotation(b)
            adjusted == IF b.w < b.h THEN b.angle + 90 ELSE b.angle
        IN  /\ (ret.angle[1] - canonical) % 360 = 0
            /\ adjusted >= 0 => ret.angle[1] = canonical
            /\ adjusted < 0 => (ret.angle[1] = canonical - 360 /\ ret.angle[1] < 0)

\* C28 witness: a long-edge-first box at a negative angle; the detector
\* returns the negative angle, the tutorial that angle plus 360.
C28_Witness ==
    /\ call.op = "_detect_with_min_area_rect"
    /\ call.rect.w > call.rect.h
    /\ ret.angle[1] < 0
    /\ detect_rectangle_rotation(call.rect) = ret.angle[1] + 360

(***************************************************************************)
(* Claims about the routes and the upload, checked under SpecWeb.          *)
(***************************************************************************)
\* a /process route has answered
RouteAnswered == call.op \in Routes /\ ret.status = "done"

\* the stored file the image_id of the request resolves to, <<>> if none
Resolves ==
    IF call.image_id = <<>> THEN <<>>
    ELSE LET hits == { f \in folder : f.id = call.image_id[1] }
         IN  IF hits = {} THEN <<>> ELSE << CHOOSE f \in hits : TRUE >>

\* the parameter of the request at position i, or the documented default d
ParamOr(i, d) == IF call.given[i] = <<>> THEN d ELSE call.given[i][1]

\* what the analysis of the route returns for the stored image with the
\* request's parameters, the defaults being 30, 0.1, 5 and 25
Expected ==
    CASE call.op = "defect_detection" ->
            detect_defects(Resolves[1].content, ParamOr(1, 30))
      [] call.op = "measurement" ->
            measure_dimensions(Resolves[1].content, ParamOr(1, 10))
      [] OTHER ->
            detect_fiducial_marks(Resolves[1].content, ParamOr(1, 5), ParamOr(2, 25))

\* C29: a /process route answers 404 NOT_FOUND without calling the service
\* when the image_id resolves to no stored file, 500 ERROR when an exception
\* is raised (no image_id, failure inside the service), and 200 with success
\* and the result of the analysis otherwise; absent parameters take the
\* defaults 30, 0.1, 5 and 25.
C29_RouteResponses ==
    RouteAnswered =>
        /\ ret.http \in {200, 404, 500}
        /\ (call.image_id # <<>> /\ Resolves = <<>>) <=> ret.http = 404
        /\ ret.http = 404 => (ret.code = "NOT_FOUND" /\ ~ret.called /\ ~ret.success)
        /\ (call.image_id = <<>> \/ (Resolves # <<>> /\ call.mistyped)) <=> ret.http = 500
        /\ ret.http = 500 => (ret.code = "ERROR" /\ ~ret.success)
        /\ ret.http = 200 =>
              /\ ret.success /\ ret.called
              /\ ret.body = << Expected >>

\* C29 witness: the three answers; here a 200 for a request without
\* threshold, whose result is the one at threshold 30 and not the one at 1.
C29_Witness ==
    /\ RouteAnswered /\ call.op = "defect_detection"
    /\ call.given = << <<>> >>
    /\ ret.http = 200
    /\ ret.body[1] = detect_defects(Resolves[1].content, 30)
    /\ ret.body[1] # detect_defects(Resolves[1].content, 1)

\* an upload has been answered
UploadAnswered == call.op = "upload_image" /\ ret.status = "done"

\* C30: a failed upload leaves the folder as it was: nothing is saved for a
\* name that is not allowed, and the file saved is removed again when it
\* cannot be decoded; after a successful upload the file is stored and
\* get_image_path of its id returns it, and get_image_path of an id that was
\* not uploaded returns None.  A stored image stays stored.
C30_FailedUploadLeavesFolder ==
    /\ [](/\ (call.op = "upload_image" /\ ret.status = "saved") =>
                /\ allowed_file(call.filename)
                /\ folder = call.before \cup {SavedFile}
          /\ (UploadAnswered /\ ret.http # 200) => folder = call.before
          /\ (UploadAnswered /\ ret.http = 200) =>
                /\ folder = call.before \cup {SavedFile}
                /\ SavedFile \notin call.before
                /\ get_image_path(ret.image_id, folder) = << SavedFile >>
          /\ (call.op = "upload_image" => (\A f \in call.before : f.content.readable))
          /\ \A id \in Ids :
                (\A f \in folder : f.id # id) => get_image_path(id, folder) = <<>>)
    /\ [][\A f \in folder : f.content.readable => f \in folder']_vars

\* C30 witness: an upload with an allowed name that cannot be decoded has
\* been answered with an error, and the folder holds what it held before.
C30_Witness ==
    /\ UploadAnswered /\ ret.http = 500
    /\ allowed_file(call.filename) /\ ~call.content.readable
    /\ call.before # {} /\ folder = call.before

====
